---- MODULE Spec2Model ----
(***************************************************************************)
(* The DRE extraction hook useDREData (src/src/components/hooks/           *)
(* useDREData.js): the text normaliser, the month classifier, the pt-BR    *)
(* number parser, the fetch/extract pipeline run by the mount effect, the  *)
(* index, and the alias resolver findRow / valueAt.                        *)
(*                                                                         *)
(* A JavaScript string is modelled as a sequence of characters, a          *)
(* character as a one-character string; a non-ASCII character is written   *)
(* by its code point ("U+00ED" is i-acute).  Array indices are the         *)
(* source's 0-based indices; At reads an element as JavaScript does.       *)
(* A number is the decimal fraction n / 10^e, kept in lowest form.         *)
(* The characters with a case or a decomposition are those of U+0000 to    *)
(* U+024F and the combining marks U+0300 to U+036F; a character beyond     *)
(* them is taken to have neither.                                          *)
(***************************************************************************)
EXTENDS Integers, Sequences, FiniteSets, TLC

\* ------------------------------------------------------------ JavaScript values

\* undefined: what reading a missing array element or property yields.
Undefined == <<"undefined">>

\* array[i] with the source's 0-based index.
At(arr, i) == IF i >= 0 /\ i < Len(arr) THEN arr[i + 1] ELSE Undefined

\* null
Null == <<"null">>

\* x ?? d: d for undefined and for null.
Coalesce(x, d) == IF x = Undefined \/ x = Null THEN d ELSE x

SetMin(S) == CHOOSE x \in S : \A y \in S : x <= y
SetMax(S) == CHOOSE x \in S : \A y \in S : x >= y

RECURSIVE Flatten(_)
Flatten(ss) == IF ss = <<>> THEN <<>> ELSE Head(ss) \o Flatten(Tail(ss))

\* ------------------------------------------------------------ characters

DigitChars == <<"0","1","2","3","4","5","6","7","8","9">>
DigitSet == {DigitChars[i] : i \in DOMAIN DigitChars}
DigitValues == [c \in DigitSet |-> (CHOOSE i \in DOMAIN DigitChars : DigitChars[i] = c) - 1]
IsDigit(c) == c \in DigitSet
DigitValue(c) == DigitValues[c]

\* \s of a JavaScript regular expression, and what trim() removes: the
\* white space and line terminators of ECMAScript.
Whitespace ==
  {"U+0009", "U+000A", "U+000B", "U+000C", "U+000D", " ", "U+00A0", "U+1680",
   "U+2000", "U+2001", "U+2002", "U+2003", "U+2004", "U+2005", "U+2006",
   "U+2007", "U+2008", "U+2009", "U+200A", "U+2028", "U+2029", "U+202F",
   "U+205F", "U+3000", "U+FEFF"}

\* The combining marks U+0300..U+036F of /[\u0300-\u036f]/ (line 22).
CombiningMarks ==
  {"U+0300", "U+0301", "U+0302", "U+0303", "U+0304", "U+0305", "U+0306",
   "U+0307", "U+0308", "U+0309", "U+030A", "U+030B", "U+030C", "U+030D",
   "U+030E", "U+030F", "U+0310", "U+0311", "U+0312", "U+0313", "U+0314",
   "U+0315", "U+0316", "U+0317", "U+0318", "U+0319", "U+031A", "U+031B",
   "U+031C", "U+031D", "U+031E", "U+031F", "U+0320", "U+0321", "U+0322",
   "U+0323", "U+0324", "U+0325", "U+0326", "U+0327", "U+0328", "U+0329",
   "U+032A", "U+032B", "U+032C", "U+032D", "U+032E", "U+032F", "U+0330",
   "U+0331", "U+0332", "U+0333", "U+0334", "U+0335", "U+0336", "U+0337",
   "U+0338", "U+0339", "U+033A", "U+033B", "U+033C", "U+033D", "U+033E",
   "U+033F", "U+0340", "U+0341", "U+0342", "U+0343", "U+0344", "U+0345",
   "U+0346", "U+0347", "U+0348", "U+0349", "U+034A", "U+034B", "U+034C",
   "U+034D", "U+034E", "U+034F", "U+0350", "U+0351", "U+0352", "U+0353",
   "U+0354", "U+0355", "U+0356", "U+0357", "U+0358", "U+0359", "U+035A",
   "U+035B", "U+035C", "U+035D", "U+035E", "U+035F", "U+0360", "U+0361",
   "U+0362", "U+0363", "U+0364", "U+0365", "U+0366", "U+0367", "U+0368",
   "U+0369", "U+036A", "U+036B", "U+036C", "U+036D", "U+036E", "U+036F"}

\* The canonical combining class of each mark that has one.
CombiningClasses ==
  <<[class |-> 1, marks |->
     {"U+0334", "U+0335", "U+0336", "U+0337", "U+0338"}],
    [class |-> 202, marks |->
     {"U+0321", "U+0322", "U+0327", "U+0328"}],
    [class |-> 216, marks |->
     {"U+031B"}],
    [class |-> 220, marks |->
     {"U+0316", "U+0317", "U+0318", "U+0319", "U+031C", "U+031D", "U+031E",
      "U+031F", "U+0320", "U+0323", "U+0324", "U+0325", "U+0326", "U+0329",
      "U+032A", "U+032B", "U+032C", "U+032D", "U+032E", "U+032F", "U+0330",
      "U+0331", "U+0332", "U+0333", "U+0339", "U+033A", "U+033B", "U+033C",
      "U+0347", "U+0348", "U+0349", "U+034D", "U+034E", "U+0353", "U+0354",
      "U+0355", "U+0356", "U+0359", "U+035A"}],
    [class |-> 230, marks |->
     {"U+0300", "U+0301", "U+0302", "U+0303", "U+0304", "U+0305", "U+0306",
      "U+0307", "U+0308", "U+0309", "U+030A", "U+030B", "U+030C", "U+030D",
      "U+030E", "U+030F", "U+0310", "U+0311", "U+0312", "U+0313", "U+0314",
      "U+033D", "U+033E", "U+033F", "U+0340", "U+0341", "U+0342", "U+0343",
      "U+0344", "U+0346", "U+034A", "U+034B", "U+034C", "U+0350", "U+0351",
      "U+0352", "U+0357", "U+035B", "U+0363", "U+0364", "U+0365", "U+0366",
      "U+0367", "U+0368", "U+0369", "U+036A", "U+036B", "U+036C", "U+036D",
      "U+036E", "U+036F"}],
    [class |-> 232, marks |->
     {"U+0315", "U+031A", "U+0358"}],
    [class |-> 233, marks |->
     {"U+035C", "U+035F", "U+0362"}],
    [class |-> 234, marks |->
     {"U+035D", "U+035E", "U+0360", "U+0361"}],
    [class |-> 240, marks |->
     {"U+0345"}]>>

\* The canonical combining class of a character, 0 for a character that
\* is no mark.
CombiningClass(c) ==
  IF c \notin CombiningMarks
       \/ \A k \in DOMAIN CombiningClasses : c \notin CombiningClasses[k].marks
  THEN 0
  ELSE CombiningClasses[CHOOSE k \in DOMAIN CombiningClasses :
                          c \in CombiningClasses[k].marks].class

\* Canonical decomposition: each character of U+0000..U+024F and of the
\* combining marks that decomposes, with its full decomposition.
DecompositionTable ==
  <<<<"U+00C0", <<"A", "U+0300">>>>, <<"U+00C1", <<"A", "U+0301">>>>,
    <<"U+00C2", <<"A", "U+0302">>>>, <<"U+00C3", <<"A", "U+0303">>>>,
    <<"U+00C4", <<"A", "U+0308">>>>, <<"U+00C5", <<"A", "U+030A">>>>,
    <<"U+00C7", <<"C", "U+0327">>>>, <<"U+00C8", <<"E", "U+0300">>>>,
    <<"U+00C9", <<"E", "U+0301">>>>, <<"U+00CA", <<"E", "U+0302">>>>,
    <<"U+00CB", <<"E", "U+0308">>>>, <<"U+00CC", <<"I", "U+0300">>>>,
    <<"U+00CD", <<"I", "U+0301">>>>, <<"U+00CE", <<"I", "U+0302">>>>,
    <<"U+00CF", <<"I", "U+0308">>>>, <<"U+00D1", <<"N", "U+0303">>>>,
    <<"U+00D2", <<"O", "U+0300">>>>, <<"U+00D3", <<"O", "U+0301">>>>,
    <<"U+00D4", <<"O", "U+0302">>>>, <<"U+00D5", <<"O", "U+0303">>>>,
    <<"U+00D6", <<"O", "U+0308">>>>, <<"U+00D9", <<"U", "U+0300">>>>,
    <<"U+00DA", <<"U", "U+0301">>>>, <<"U+00DB", <<"U", "U+0302">>>>,
    <<"U+00DC", <<"U", "U+0308">>>>, <<"U+00DD", <<"Y", "U+0301">>>>,
    <<"U+00E0", <<"a", "U+0300">>>>, <<"U+00E1", <<"a", "U+0301">>>>,
    <<"U+00E2", <<"a", "U+0302">>>>, <<"U+00E3", <<"a", "U+0303">>>>,
    <<"U+00E4", <<"a", "U+0308">>>>, <<"U+00E5", <<"a", "U+030A">>>>,
    <<"U+00E7", <<"c", "U+0327">>>>, <<"U+00E8", <<"e", "U+0300">>>>,
    <<"U+00E9", <<"e", "U+0301">>>>, <<"U+00EA", <<"e", "U+0302">>>>,
    <<"U+00EB", <<"e", "U+0308">>>>, <<"U+00EC", <<"i", "U+0300">>>>,
    <<"U+00ED", <<"i", "U+0301">>>>, <<"U+00EE", <<"i", "U+0302">>>>,
    <<"U+00EF", <<"i", "U+0308">>>>, <<"U+00F1", <<"n", "U+0303">>>>,
    <<"U+00F2", <<"o", "U+0300">>>>, <<"U+00F3", <<"o", "U+0301">>>>,
    <<"U+00F4", <<"o", "U+0302">>>>, <<"U+00F5", <<"o", "U+0303">>>>,
    <<"U+00F6", <<"o", "U+0308">>>>, <<"U+00F9", <<"u", "U+0300">>>>,
    <<"U+00FA", <<"u", "U+0301">>>>, <<"U+00FB", <<"u", "U+0302">>>>,
    <<"U+00FC", <<"u", "U+0308">>>>, <<"U+00FD", <<"y", "U+0301">>>>,
    <<"U+00FF", <<"y", "U+0308">>>>, <<"U+0100", <<"A", "U+0304">>>>,
    <<"U+0101", <<"a", "U+0304">>>>, <<"U+0102", <<"A", "U+0306">>>>,
    <<"U+0103", <<"a", "U+0306">>>>, <<"U+0104", <<"A", "U+0328">>>>,
    <<"U+0105", <<"a", "U+0328">>>>, <<"U+0106", <<"C", "U+0301">>>>,
    <<"U+0107", <<"c", "U+0301">>>>, <<"U+0108", <<"C", "U+0302">>>>,
    <<"U+0109", <<"c", "U+0302">>>>, <<"U+010A", <<"C", "U+0307">>>>,
    <<"U+010B", <<"c", "U+0307">>>>, <<"U+010C", <<"C", "U+030C">>>>,
    <<"U+010D", <<"c", "U+030C">>>>, <<"U+010E", <<"D", "U+030C">>>>,
    <<"U+010F", <<"d", "U+030C">>>>, <<"U+0112", <<"E", "U+0304">>>>,
    <<"U+0113", <<"e", "U+0304">>>>, <<"U+0114", <<"E", "U+0306">>>>,
    <<"U+0115", <<"e", "U+0306">>>>, <<"U+0116", <<"E", "U+0307">>>>,
    <<"U+0117", <<"e", "U+0307">>>>, <<"U+0118", <<"E", "U+0328">>>>,
    <<"U+0119", <<"e", "U+0328">>>>, <<"U+011A", <<"E", "U+030C">>>>,
    <<"U+011B", <<"e", "U+030C">>>>, <<"U+011C", <<"G", "U+0302">>>>,
    <<"U+011D", <<"g", "U+0302">>>>, <<"U+011E", <<"G", "U+0306">>>>,
    <<"U+011F", <<"g", "U+0306">>>>, <<"U+0120", <<"G", "U+0307">>>>,
    <<"U+0121", <<"g", "U+0307">>>>, <<"U+0122", <<"G", "U+0327">>>>,
    <<"U+0123", <<"g", "U+0327">>>>, <<"U+0124", <<"H", "U+0302">>>>,
    <<"U+0125", <<"h", "U+0302">>>>, <<"U+0128", <<"I", "U+0303">>>>,
    <<"U+0129", <<"i", "U+0303">>>>, <<"U+012A", <<"I", "U+0304">>>>,
    <<"U+012B", <<"i", "U+0304">>>>, <<"U+012C", <<"I", "U+0306">>>>,
    <<"U+012D", <<"i", "U+0306">>>>, <<"U+012E", <<"I", "U+0328">>>>,
    <<"U+012F", <<"i", "U+0328">>>>, <<"U+0130", <<"I", "U+0307">>>>,
    <<"U+0134", <<"J", "U+0302">>>>, <<"U+0135", <<"j", "U+0302">>>>,
    <<"U+0136", <<"K", "U+0327">>>>, <<"U+0137", <<"k", "U+0327">>>>,
    <<"U+0139", <<"L", "U+0301">>>>, <<"U+013A", <<"l", "U+0301">>>>,
    <<"U+013B", <<"L", "U+0327">>>>, <<"U+013C", <<"l", "U+0327">>>>,
    <<"U+013D", <<"L", "U+030C">>>>, <<"U+013E", <<"l", "U+030C">>>>,
    <<"U+0143", <<"N", "U+0301">>>>, <<"U+0144", <<"n", "U+0301">>>>,
    <<"U+0145", <<"N", "U+0327">>>>, <<"U+0146", <<"n", "U+0327">>>>,
    <<"U+0147", <<"N", "U+030C">>>>, <<"U+0148", <<"n", "U+030C">>>>,
    <<"U+014C", <<"O", "U+0304">>>>, <<"U+014D", <<"o", "U+0304">>>>,
    <<"U+014E", <<"O", "U+0306">>>>, <<"U+014F", <<"o", "U+0306">>>>,
    <<"U+0150", <<"O", "U+030B">>>>, <<"U+0151", <<"o", "U+030B">>>>,
    <<"U+0154", <<"R", "U+0301">>>>, <<"U+0155", <<"r", "U+0301">>>>,
    <<"U+0156", <<"R", "U+0327">>>>, <<"U+0157", <<"r", "U+0327">>>>,
    <<"U+0158", <<"R", "U+030C">>>>, <<"U+0159", <<"r", "U+030C">>>>,
    <<"U+015A", <<"S", "U+0301">>>>, <<"U+015B", <<"s", "U+0301">>>>,
    <<"U+015C", <<"S", "U+0302">>>>, <<"U+015D", <<"s", "U+0302">>>>,
    <<"U+015E", <<"S", "U+0327">>>>, <<"U+015F", <<"s", "U+0327">>>>,
    <<"U+0160", <<"S", "U+030C">>>>, <<"U+0161", <<"s", "U+030C">>>>,
    <<"U+0162", <<"T", "U+0327">>>>, <<"U+0163", <<"t", "U+0327">>>>,
    <<"U+0164", <<"T", "U+030C">>>>, <<"U+0165", <<"t", "U+030C">>>>,
    <<"U+0168", <<"U", "U+0303">>>>, <<"U+0169", <<"u", "U+0303">>>>,
    <<"U+016A", <<"U", "U+0304">>>>, <<"U+016B", <<"u", "U+0304">>>>,
    <<"U+016C", <<"U", "U+0306">>>>, <<"U+016D", <<"u", "U+0306">>>>,
    <<"U+016E", <<"U", "U+030A">>>>, <<"U+016F", <<"u", "U+030A">>>>,
    <<"U+0170", <<"U", "U+030B">>>>, <<"U+0171", <<"u", "U+030B">>>>,
    <<"U+0172", <<"U", "U+0328">>>>, <<"U+0173", <<"u", "U+0328">>>>,
    <<"U+0174", <<"W", "U+0302">>>>, <<"U+0175", <<"w", "U+0302">>>>,
    <<"U+0176", <<"Y", "U+0302">>>>, <<"U+0177", <<"y", "U+0302">>>>,
    <<"U+0178", <<"Y", "U+0308">>>>, <<"U+0179", <<"Z", "U+0301">>>>,
    <<"U+017A", <<"z", "U+0301">>>>, <<"U+017B", <<"Z", "U+0307">>>>,
    <<"U+017C", <<"z", "U+0307">>>>, <<"U+017D", <<"Z", "U+030C">>>>,
    <<"U+017E", <<"z", "U+030C">>>>, <<"U+01A0", <<"O", "U+031B">>>>,
    <<"U+01A1", <<"o", "U+031B">>>>, <<"U+01AF", <<"U", "U+031B">>>>,
    <<"U+01B0", <<"u", "U+031B">>>>, <<"U+01CD", <<"A", "U+030C">>>>,
    <<"U+01CE", <<"a", "U+030C">>>>, <<"U+01CF", <<"I", "U+030C">>>>,
    <<"U+01D0", <<"i", "U+030C">>>>, <<"U+01D1", <<"O", "U+030C">>>>,
    <<"U+01D2", <<"o", "U+030C">>>>, <<"U+01D3", <<"U", "U+030C">>>>,
    <<"U+01D4", <<"u", "U+030C">>>>,
    <<"U+01D5", <<"U", "U+0308", "U+0304">>>>,
    <<"U+01D6", <<"u", "U+0308", "U+0304">>>>,
    <<"U+01D7", <<"U", "U+0308", "U+0301">>>>,
    <<"U+01D8", <<"u", "U+0308", "U+0301">>>>,
    <<"U+01D9", <<"U", "U+0308", "U+030C">>>>,
    <<"U+01DA", <<"u", "U+0308", "U+030C">>>>,
    <<"U+01DB", <<"U", "U+0308", "U+0300">>>>,
    <<"U+01DC", <<"u", "U+0308", "U+0300">>>>,
    <<"U+01DE", <<"A", "U+0308", "U+0304">>>>,
    <<"U+01DF", <<"a", "U+0308", "U+0304">>>>,
    <<"U+01E0", <<"A", "U+0307", "U+0304">>>>,
    <<"U+01E1", <<"a", "U+0307", "U+0304">>>>,
    <<"U+01E2", <<"U+00C6", "U+0304">>>>,
    <<"U+01E3", <<"U+00E6", "U+0304">>>>, <<"U+01E6", <<"G", "U+030C">>>>,
    <<"U+01E7", <<"g", "U+030C">>>>, <<"U+01E8", <<"K", "U+030C">>>>,
    <<"U+01E9", <<"k", "U+030C">>>>, <<"U+01EA", <<"O", "U+0328">>>>,
    <<"U+01EB", <<"o", "U+0328">>>>,
    <<"U+01EC", <<"O", "U+0328", "U+0304">>>>,
    <<"U+01ED", <<"o", "U+0328", "U+0304">>>>,
    <<"U+01EE", <<"U+01B7", "U+030C">>>>,
    <<"U+01EF", <<"U+0292", "U+030C">>>>, <<"U+01F0", <<"j", "U+030C">>>>,
    <<"U+01F4", <<"G", "U+0301">>>>, <<"U+01F5", <<"g", "U+0301">>>>,
    <<"U+01F8", <<"N", "U+0300">>>>, <<"U+01F9", <<"n", "U+0300">>>>,
    <<"U+01FA", <<"A", "U+030A", "U+0301">>>>,
    <<"U+01FB", <<"a", "U+030A", "U+0301">>>>,
    <<"U+01FC", <<"U+00C6", "U+0301">>>>,
    <<"U+01FD", <<"U+00E6", "U+0301">>>>,
    <<"U+01FE", <<"U+00D8", "U+0301">>>>,
    <<"U+01FF", <<"U+00F8", "U+0301">>>>, <<"U+0200", <<"A", "U+030F">>>>,
    <<"U+0201", <<"a", "U+030F">>>>, <<"U+0202", <<"A", "U+0311">>>>,
    <<"U+0203", <<"a", "U+0311">>>>, <<"U+0204", <<"E", "U+030F">>>>,
    <<"U+0205", <<"e", "U+030F">>>>, <<"U+0206", <<"E", "U+0311">>>>,
    <<"U+0207", <<"e", "U+0311">>>>, <<"U+0208", <<"I", "U+030F">>>>,
    <<"U+0209", <<"i", "U+030F">>>>, <<"U+020A", <<"I", "U+0311">>>>,
    <<"U+020B", <<"i", "U+0311">>>>, <<"U+020C", <<"O", "U+030F">>>>,
    <<"U+020D", <<"o", "U+030F">>>>, <<"U+020E", <<"O", "U+0311">>>>,
    <<"U+020F", <<"o", "U+0311">>>>, <<"U+0210", <<"R", "U+030F">>>>,
    <<"U+0211", <<"r", "U+030F">>>>, <<"U+0212", <<"R", "U+0311">>>>,
    <<"U+0213", <<"r", "U+0311">>>>, <<"U+0214", <<"U", "U+030F">>>>,
    <<"U+0215", <<"u", "U+030F">>>>, <<"U+0216", <<"U", "U+0311">>>>,
    <<"U+0217", <<"u", "U+0311">>>>, <<"U+0218", <<"S", "U+0326">>>>,
    <<"U+0219", <<"s", "U+0326">>>>, <<"U+021A", <<"T", "U+0326">>>>,
    <<"U+021B", <<"t", "U+0326">>>>, <<"U+021E", <<"H", "U+030C">>>>,
    <<"U+021F", <<"h", "U+030C">>>>, <<"U+0226", <<"A", "U+0307">>>>,
    <<"U+0227", <<"a", "U+0307">>>>, <<"U+0228", <<"E", "U+0327">>>>,
    <<"U+0229", <<"e", "U+0327">>>>,
    <<"U+022A", <<"O", "U+0308", "U+0304">>>>,
    <<"U+022B", <<"o", "U+0308", "U+0304">>>>,
    <<"U+022C", <<"O", "U+0303", "U+0304">>>>,
    <<"U+022D", <<"o", "U+0303", "U+0304">>>>,
    <<"U+022E", <<"O", "U+0307">>>>, <<"U+022F", <<"o", "U+0307">>>>,
    <<"U+0230", <<"O", "U+0307", "U+0304">>>>,
    <<"U+0231", <<"o", "U+0307", "U+0304">>>>,
    <<"U+0232", <<"Y", "U+0304">>>>, <<"U+0233", <<"y", "U+0304">>>>,
    <<"U+0340", <<"U+0300">>>>, <<"U+0341", <<"U+0301">>>>,
    <<"U+0343", <<"U+0313">>>>, <<"U+0344", <<"U+0308", "U+0301">>>>>>

Decomposition ==
  [c \in {DecompositionTable[i][1] : i \in DOMAIN DecompositionTable} |->
    DecompositionTable[CHOOSE i \in DOMAIN DecompositionTable :
                         DecompositionTable[i][1] = c][2]]


\* The decomposition of every character of s.
RECURSIVE Decompose(_)
Decompose(s) ==
  IF s = <<>> THEN <<>>
  ELSE IF s[1] \in DOMAIN Decomposition
       THEN Decomposition[s[1]] \o Decompose(Tail(s))
       ELSE <<s[1]>> \o Decompose(Tail(s))

\* The places where a mark follows a character of greater combining class.
Disordered(s) ==
  {i \in 1..(Len(s) - 1) :
     /\ CombiningClass(s[i + 1]) > 0
     /\ CombiningClass(s[i]) > CombiningClass(s[i + 1])}

SwapAt(s, k) ==
  [j \in DOMAIN s |-> IF j = k THEN s[k + 1] ELSE IF j = k + 1 THEN s[k] ELSE s[j]]

\* Canonical ordering: such pairs are exchanged until none is left.
RECURSIVE CanonicalOrder(_)
CanonicalOrder(s) ==
  IF Disordered(s) = {} THEN s
  ELSE CanonicalOrder(SwapAt(s, SetMin(Disordered(s))))

\* String.prototype.normalize("NFD")
NFD(s) == CanonicalOrder(Decompose(s))

\* String.prototype.toLowerCase on a one-character string: the characters
\* of U+0000..U+024F it changes, each with the string it becomes.
LowerPairs ==
  <<<<"A", <<"a">>>>, <<"B", <<"b">>>>, <<"C", <<"c">>>>, <<"D", <<"d">>>>,
    <<"E", <<"e">>>>, <<"F", <<"f">>>>, <<"G", <<"g">>>>, <<"H", <<"h">>>>,
    <<"I", <<"i">>>>, <<"J", <<"j">>>>, <<"K", <<"k">>>>, <<"L", <<"l">>>>,
    <<"M", <<"m">>>>, <<"N", <<"n">>>>, <<"O", <<"o">>>>, <<"P", <<"p">>>>,
    <<"Q", <<"q">>>>, <<"R", <<"r">>>>, <<"S", <<"s">>>>, <<"T", <<"t">>>>,
    <<"U", <<"u">>>>, <<"V", <<"v">>>>, <<"W", <<"w">>>>, <<"X", <<"x">>>>,
    <<"Y", <<"y">>>>, <<"Z", <<"z">>>>, <<"U+00C0", <<"U+00E0">>>>,
    <<"U+00C1", <<"U+00E1">>>>, <<"U+00C2", <<"U+00E2">>>>,
    <<"U+00C3", <<"U+00E3">>>>, <<"U+00C4", <<"U+00E4">>>>,
    <<"U+00C5", <<"U+00E5">>>>, <<"U+00C6", <<"U+00E6">>>>,
    <<"U+00C7", <<"U+00E7">>>>, <<"U+00C8", <<"U+00E8">>>>,
    <<"U+00C9", <<"U+00E9">>>>, <<"U+00CA", <<"U+00EA">>>>,
    <<"U+00CB", <<"U+00EB">>>>, <<"U+00CC", <<"U+00EC">>>>,
    <<"U+00CD", <<"U+00ED">>>>, <<"U+00CE", <<"U+00EE">>>>,
    <<"U+00CF", <<"U+00EF">>>>, <<"U+00D0", <<"U+00F0">>>>,
    <<"U+00D1", <<"U+00F1">>>>, <<"U+00D2", <<"U+00F2">>>>,
    <<"U+00D3", <<"U+00F3">>>>, <<"U+00D4", <<"U+00F4">>>>,
    <<"U+00D5", <<"U+00F5">>>>, <<"U+00D6", <<"U+00F6">>>>,
    <<"U+00D8", <<"U+00F8">>>>, <<"U+00D9", <<"U+00F9">>>>,
    <<"U+00DA", <<"U+00FA">>>>, <<"U+00DB", <<"U+00FB">>>>,
    <<"U+00DC", <<"U+00FC">>>>, <<"U+00DD", <<"U+00FD">>>>,
    <<"U+00DE", <<"U+00FE">>>>, <<"U+0100", <<"U+0101">>>>,
    <<"U+0102", <<"U+0103">>>>, <<"U+0104", <<"U+0105">>>>,
    <<"U+0106", <<"U+0107">>>>, <<"U+0108", <<"U+0109">>>>,
    <<"U+010A", <<"U+010B">>>>, <<"U+010C", <<"U+010D">>>>,
    <<"U+010E", <<"U+010F">>>>, <<"U+0110", <<"U+0111">>>>,
    <<"U+0112", <<"U+0113">>>>, <<"U+0114", <<"U+0115">>>>,
    <<"U+0116", <<"U+0117">>>>, <<"U+0118", <<"U+0119">>>>,
    <<"U+011A", <<"U+011B">>>>, <<"U+011C", <<"U+011D">>>>,
    <<"U+011E", <<"U+011F">>>>, <<"U+0120", <<"U+0121">>>>,
    <<"U+0122", <<"U+0123">>>>, <<"U+0124", <<"U+0125">>>>,
    <<"U+0126", <<"U+0127">>>>, <<"U+0128", <<"U+0129">>>>,
    <<"U+012A", <<"U+012B">>>>, <<"U+012C", <<"U+012D">>>>,
    <<"U+012E", <<"U+012F">>>>, <<"U+0130", <<"i", "U+0307">>>>,
    <<"U+0132", <<"U+0133">>>>, <<"U+0134", <<"U+0135">>>>,
    <<"U+0136", <<"U+0137">>>>, <<"U+0139", <<"U+013A">>>>,
    <<"U+013B", <<"U+013C">>>>, <<"U+013D", <<"U+013E">>>>,
    <<"U+013F", <<"U+0140">>>>, <<"U+0141", <<"U+0142">>>>,
    <<"U+0143", <<"U+0144">>>>, <<"U+0145", <<"U+0146">>>>,
    <<"U+0147", <<"U+0148">>>>, <<"U+014A", <<"U+014B">>>>,
    <<"U+014C", <<"U+014D">>>>, <<"U+014E", <<"U+014F">>>>,
    <<"U+0150", <<"U+0151">>>>, <<"U+0152", <<"U+0153">>>>,
    <<"U+0154", <<"U+0155">>>>, <<"U+0156", <<"U+0157">>>>,
    <<"U+0158", <<"U+0159">>>>, <<"U+015A", <<"U+015B">>>>,
    <<"U+015C", <<"U+015D">>>>, <<"U+015E", <<"U+015F">>>>,
    <<"U+0160", <<"U+0161">>>>, <<"U+0162", <<"U+0163">>>>,
    <<"U+0164", <<"U+0165">>>>, <<"U+0166", <<"U+0167">>>>,
    <<"U+0168", <<"U+0169">>>>, <<"U+016A", <<"U+016B">>>>,
    <<"U+016C", <<"U+016D">>>>, <<"U+016E", <<"U+016F">>>>,
    <<"U+0170", <<"U+0171">>>>, <<"U+0172", <<"U+0173">>>>,
    <<"U+0174", <<"U+0175">>>>, <<"U+0176", <<"U+0177">>>>,
    <<"U+0178", <<"U+00FF">>>>, <<"U+0179", <<"U+017A">>>>,
    <<"U+017B", <<"U+017C">>>>, <<"U+017D", <<"U+017E">>>>,
    <<"U+0181", <<"U+0253">>>>, <<"U+0182", <<"U+0183">>>>,
    <<"U+0184", <<"U+0185">>>>, <<"U+0186", <<"U+0254">>>>,
    <<"U+0187", <<"U+0188">>>>, <<"U+0189", <<"U+0256">>>>,
    <<"U+018A", <<"U+0257">>>>, <<"U+018B", <<"U+018C">>>>,
    <<"U+018E", <<"U+01DD">>>>, <<"U+018F", <<"U+0259">>>>,
    <<"U+0190", <<"U+025B">>>>, <<"U+0191", <<"U+0192">>>>,
    <<"U+0193", <<"U+0260">>>>, <<"U+0194", <<"U+0263">>>>,
    <<"U+0196", <<"U+0269">>>>, <<"U+0197", <<"U+0268">>>>,
    <<"U+0198", <<"U+0199">>>>, <<"U+019C", <<"U+026F">>>>,
    <<"U+019D", <<"U+0272">>>>, <<"U+019F", <<"U+0275">>>>,
    <<"U+01A0", <<"U+01A1">>>>, <<"U+01A2", <<"U+01A3">>>>,
    <<"U+01A4", <<"U+01A5">>>>, <<"U+01A6", <<"U+0280">>>>,
    <<"U+01A7", <<"U+01A8">>>>, <<"U+01A9", <<"U+0283">>>>,
    <<"U+01AC", <<"U+01AD">>>>, <<"U+01AE", <<"U+0288">>>>,
    <<"U+01AF", <<"U+01B0">>>>, <<"U+01B1", <<"U+028A">>>>,
    <<"U+01B2", <<"U+028B">>>>, <<"U+01B3", <<"U+01B4">>>>,
    <<"U+01B5", <<"U+01B6">>>>, <<"U+01B7", <<"U+0292">>>>,
    <<"U+01B8", <<"U+01B9">>>>, <<"U+01BC", <<"U+01BD">>>>,
    <<"U+01C4", <<"U+01C6">>>>, <<"U+01C5", <<"U+01C6">>>>,
    <<"U+01C7", <<"U+01C9">>>>, <<"U+01C8", <<"U+01C9">>>>,
    <<"U+01CA", <<"U+01CC">>>>, <<"U+01CB", <<"U+01CC">>>>,
    <<"U+01CD", <<"U+01CE">>>>, <<"U+01CF", <<"U+01D0">>>>,
    <<"U+01D1", <<"U+01D2">>>>, <<"U+01D3", <<"U+01D4">>>>,
    <<"U+01D5", <<"U+01D6">>>>, <<"U+01D7", <<"U+01D8">>>>,
    <<"U+01D9", <<"U+01DA">>>>, <<"U+01DB", <<"U+01DC">>>>,
    <<"U+01DE", <<"U+01DF">>>>, <<"U+01E0", <<"U+01E1">>>>,
    <<"U+01E2", <<"U+01E3">>>>, <<"U+01E4", <<"U+01E5">>>>,
    <<"U+01E6", <<"U+01E7">>>>, <<"U+01E8", <<"U+01E9">>>>,
    <<"U+01EA", <<"U+01EB">>>>, <<"U+01EC", <<"U+01ED">>>>,
    <<"U+01EE", <<"U+01EF">>>>, <<"U+01F1", <<"U+01F3">>>>,
    <<"U+01F2", <<"U+01F3">>>>, <<"U+01F4", <<"U+01F5">>>>,
    <<"U+01F6", <<"U+0195">>>>, <<"U+01F7", <<"U+01BF">>>>,
    <<"U+01F8", <<"U+01F9">>>>, <<"U+01FA", <<"U+01FB">>>>,
    <<"U+01FC", <<"U+01FD">>>>, <<"U+01FE", <<"U+01FF">>>>,
    <<"U+0200", <<"U+0201">>>>, <<"U+0202", <<"U+0203">>>>,
    <<"U+0204", <<"U+0205">>>>, <<"U+0206", <<"U+0207">>>>,
    <<"U+0208", <<"U+0209">>>>, <<"U+020A", <<"U+020B">>>>,
    <<"U+020C", <<"U+020D">>>>, <<"U+020E", <<"U+020F">>>>,
    <<"U+0210", <<"U+0211">>>>, <<"U+0212", <<"U+0213">>>>,
    <<"U+0214", <<"U+0215">>>>, <<"U+0216", <<"U+0217">>>>,
    <<"U+0218", <<"U+0219">>>>, <<"U+021A", <<"U+021B">>>>,
    <<"U+021C", <<"U+021D">>>>, <<"U+021E", <<"U+021F">>>>,
    <<"U+0220", <<"U+019E">>>>, <<"U+0222", <<"U+0223">>>>,
    <<"U+0224", <<"U+0225">>>>, <<"U+0226", <<"U+0227">>>>,
    <<"U+0228", <<"U+0229">>>>, <<"U+022A", <<"U+022B">>>>,
    <<"U+022C", <<"U+022D">>>>, <<"U+022E", <<"U+022F">>>>,
    <<"U+0230", <<"U+0231">>>>, <<"U+0232", <<"U+0233">>>>,
    <<"U+023A", <<"U+2C65">>>>, <<"U+023B", <<"U+023C">>>>,
    <<"U+023D", <<"U+019A">>>>, <<"U+023E", <<"U+2C66">>>>,
    <<"U+0241", <<"U+0242">>>>, <<"U+0243", <<"U+0180">>>>,
    <<"U+0244", <<"U+0289">>>>, <<"U+0245", <<"U+028C">>>>,
    <<"U+0246", <<"U+0247">>>>, <<"U+0248", <<"U+0249">>>>,
    <<"U+024A", <<"U+024B">>>>, <<"U+024C", <<"U+024D">>>>,
    <<"U+024E", <<"U+024F">>>>>>

LowerTable ==
  [c \in {LowerPairs[i][1] : i \in DOMAIN LowerPairs} |->
    LowerPairs[CHOOSE i \in DOMAIN LowerPairs : LowerPairs[i][1] = c][2]]
LowerChar(c) == IF c \in DOMAIN LowerTable THEN LowerTable[c] ELSE <<c>>

\* String.prototype.toLowerCase
toLowerCase(s) == Flatten([i \in DOMAIN s |-> LowerChar(s[i])])

\* String.prototype.trim
RECURSIVE TrimStart(_)
TrimStart(s) ==
  IF s # <<>> /\ s[1] \in Whitespace THEN TrimStart(Tail(s)) ELSE s
RECURSIVE TrimEnd(_)
TrimEnd(s) ==
  IF s # <<>> /\ s[Len(s)] \in Whitespace
  THEN TrimEnd(SubSeq(s, 1, Len(s) - 1)) ELSE s
trim(s) == TrimEnd(TrimStart(s))

\* s.replace(/[...]/g, ""): drop every character of the class.
RemoveChars(s, class) == SelectSeq(s, LAMBDA c : c \notin class)

\* s.replace(/\s+/g, rep): every maximal run of whitespace becomes rep.
ReplaceWhitespaceRuns(s, rep) ==
  Flatten([i \in DOMAIN s |->
            IF s[i] \notin Whitespace THEN <<s[i]>>
            ELSE IF i > 1 /\ s[i - 1] \in Whitespace THEN <<>> ELSE rep])

\* String.prototype.includes
includes(s, sub) ==
  \E i \in 0..(Len(s) - Len(sub)) : SubSeq(s, i + 1, i + Len(sub)) = sub

\* String.prototype.slice(0, n)
SliceTo(s, n) == IF Len(s) <= n THEN s ELSE SubSeq(s, 1, n)

\* ------------------------------------------------------------ normalize

\* normalize (lines 19-24): String(s ?? ""), NFD, strip the combining marks,
\* lower-case, trim.
normalize(s) ==
  LET str  == Coalesce(s, <<>>)
      bare == RemoveChars(NFD(str), CombiningMarks)
  IN  trim(toLowerCase(bare))

\* ------------------------------------------------------------ month classifier

\* MONTH_ALIASES (lines 26-40), in table order.  An entry with year = TRUE is
\* /^(a|b)(?:[\/\-\s]?\d{2,4})?$/i, one with year = FALSE is /^a$/i.
MONTH_ALIASES == <<
  [names |-> <<<<"j","a","n">>, <<"j","a","n","e","i","r","o">>>>,          year |-> TRUE,  key |-> <<"j","a","n">>],
  [names |-> <<<<"f","e","v">>, <<"f","e","v","e","r","e","i","r","o">>>>,        year |-> TRUE,  key |-> <<"f","e","v">>],
  [names |-> <<<<"m","a","r">>, <<"m","a","r","c","o">>, <<"m","a","r","U+00E7","o">>>>,  year |-> TRUE,  key |-> <<"m","a","r">>],
  [names |-> <<<<"a","b","r">>, <<"a","b","r","i","l">>>>,            year |-> TRUE,  key |-> <<"a","b","r">>],
  [names |-> <<<<"m","a","i">>, <<"m","a","i","o">>>>,             year |-> TRUE,  key |-> <<"m","a","i">>],
  [names |-> <<<<"j","u","n">>, <<"j","u","n","h","o">>>>,            year |-> TRUE,  key |-> <<"j","u","n">>],
  [names |-> <<<<"j","u","l">>, <<"j","u","l","h","o">>>>,            year |-> TRUE,  key |-> <<"j","u","l">>],
  [names |-> <<<<"a","g","o">>, <<"a","g","o","s","t","o">>>>,           year |-> TRUE,  key |-> <<"a","g","o">>],
  [names |-> <<<<"s","e","t">>, <<"s","e","t","e","m","b","r","o">>>>,         year |-> TRUE,  key |-> <<"s","e","t">>],
  [names |-> <<<<"o","u","t">>, <<"o","u","t","u","b","r","o">>>>,          year |-> TRUE,  key |-> <<"o","u","t">>],
  [names |-> <<<<"n","o","v">>, <<"n","o","v","e","m","b","r","o">>>>,         year |-> TRUE,  key |-> <<"n","o","v">>],
  [names |-> <<<<"d","e","z">>, <<"d","e","z","e","m","b","r","o">>>>,         year |-> TRUE,  key |-> <<"d","e","z">>],
  [names |-> <<<<"t","o","t","a","l">>>>,                    year |-> FALSE, key |-> <<"t","o","t","a","l">>] >>

TotalKey == <<"t","o","t","a","l">>

\* The least and greatest number of digits of the year suffix, \d{2,4}.
YearMinDigits == 2
YearMaxDigits == 4

\* (?:[\/\-\s]?\d{2,4})?$ on the rest of the cell after the month name.
YearSuffix(t) ==
  LET digitsOk(d) == /\ Len(d) >= YearMinDigits
                     /\ Len(d) <= YearMaxDigits
                     /\ \A i \in DOMAIN d : IsDigit(d[i])
  IN  \/ t = <<>>
      \/ digitsOk(t)
      \/ /\ t # <<>>
         /\ t[1] \in ({"/", "-"} \cup Whitespace)
         /\ digitsOk(Tail(t))

\* re.test(s) for one entry; the i flag is modelled by comparing lower-cased
\* text.
AliasTest(entry, s) ==
  LET low == toLowerCase(s)
  IN  \E k \in DOMAIN entry.names :
        LET name == entry.names[k]
        IN  /\ Len(low) >= Len(name)
            /\ SubSeq(low, 1, Len(name)) = name
            /\ IF entry.year
               THEN YearSuffix(SubSeq(low, Len(name) + 1, Len(low)))
               ELSE Len(low) = Len(name)

\* The loop of line 44 from entry k on.
RECURSIVE FirstAlias(_, _)
FirstAlias(s, k) ==
  IF k > Len(MONTH_ALIASES) THEN Null
  ELSE IF AliasTest(MONTH_ALIASES[k], s) THEN MONTH_ALIASES[k].key
  ELSE FirstAlias(s, k + 1)

\* monthKey (lines 42-46): the key of the first entry whose pattern matches
\* the normalized cell, or null.
monthKey(cell) == FirstAlias(normalize(cell), 1)

\* ------------------------------------------------------------ numbers

\* The number n / 10^e in lowest form (e = 0, or n not a multiple of 10).
RECURSIVE Num(_, _)
Num(n, e) == IF e > 0 /\ n % 10 = 0 THEN Num(n \div 10, e - 1)
             ELSE [n |-> n, e |-> e]

Zero == Num(0, 0)
\* NaN, which is not a decimal fraction.
NaN == [n |-> 0, e |-> -1]
isNaN(v) == v = NaN
Negate(v) == IF isNaN(v) THEN NaN ELSE Num(0 - v.n, v.e)

RECURSIVE Pow10(_)
Pow10(e) == IF e = 0 THEN 1 ELSE 10 * Pow10(e - 1)

\* Math.abs(v) <= k for an integer k
AbsAtMost(v, k) ==
  LET a == IF v.n < 0 THEN 0 - v.n ELSE v.n IN a <= k * Pow10(v.e)

RECURSIVE DigitsToInt(_)
DigitsToInt(ds) ==
  IF ds = <<>> THEN 0
  ELSE 10 * DigitsToInt(SubSeq(ds, 1, Len(ds) - 1)) + DigitValue(ds[Len(ds)])

\* The length of the longest prefix of s made of digits.
DigitRun(s) ==
  LET other == {i \in DOMAIN s : ~IsDigit(s[i])}
  IN  IF other = {} THEN Len(s) ELSE SetMin(other) - 1

\* parseFloat on text without leading whitespace, exponent or "Infinity"
\* (parsePtNumber leaves only digits, '.', ',' and '-'): an optional sign,
\* then the longest prefix "digits", "digits.digits", "digits." or
\* ".digits"; NaN when there is none.  ni and nf are the lengths of the
\* integer and the fraction digits.
MakeDecimal(body, ni, nf) ==
  IF ni = 0 /\ nf = 0 THEN NaN
  ELSE Num(DigitsToInt(SubSeq(body, 1, ni) \o SubSeq(body, ni + 2, ni + 1 + nf)), nf)

ParseFraction(body, ni) ==
  MakeDecimal(body, ni,
              IF ni < Len(body) /\ body[ni + 1] = "."
              THEN DigitRun(SubSeq(body, ni + 2, Len(body))) ELSE 0)

ParseDecimal(body) == ParseFraction(body, DigitRun(body))

ApplySign(s, mag) == IF s # <<>> /\ s[1] = "-" THEN Negate(mag) ELSE mag

parseFloat(s) ==
  ApplySign(s, ParseDecimal(IF s # <<>> /\ s[1] \in {"-", "+"} THEN Tail(s) ELSE s))

\* s.replace(/r\$\s*/gi, ""): every "r$" (either case) with the whitespace
\* that follows it is removed, scanning left to right.
RECURSIVE RemoveCurrency(_)
RemoveCurrency(s) ==
  IF s = <<>> THEN <<>>
  ELSE IF Len(s) >= 2 /\ s[1] \in {"r", "R"} /\ s[2] = "$"
       THEN RemoveCurrency(TrimStart(SubSeq(s, 3, Len(s))))
       ELSE <<s[1]>> \o RemoveCurrency(Tail(s))

\* s.replace(",", "."): the first comma only.
ReplaceFirstComma(s) ==
  LET commas == {i \in DOMAIN s : s[i] = ","}
  IN  IF commas = {} THEN s
      ELSE [i \in DOMAIN s |-> IF i = SetMin(commas) THEN "." ELSE s[i]]

\* The lone placeholders of /^[-\u2013\u2014]$/: hyphen, en dash, em dash.
Dashes == {"-", "U+2013", "U+2014"}

\* if (/^\(.*\)$/.test(s)) { neg = true; s = s.slice(1, -1); } (line 54)
StripParens(s) ==
  IF Len(s) >= 2 /\ s[1] = "(" /\ s[Len(s)] = ")"
  THEN [neg |-> TRUE, s |-> SubSeq(s, 2, Len(s) - 1)]
  ELSE [neg |-> FALSE, s |-> s]

\* if (/-$/.test(s)) { neg = true; s = s.replace(/-$/, ""); } (line 55)
StripTrailingMinus(p) ==
  IF p.s # <<>> /\ p.s[Len(p.s)] = "-"
  THEN [neg |-> TRUE, s |-> SubSeq(p.s, 1, Len(p.s) - 1)]
  ELSE p

\* s.replace(/[^\d.,\-]/g, "") (line 56)
KeepNumeric(s) == SelectSeq(s, LAMBDA c : IsDigit(c) \/ c \in {".", ",", "-"})

\* Lines 57-58: with both separators the periods group thousands and the
\* comma is the decimal point; a comma alone is the decimal point.
DecimalPoint(s) ==
  IF (\E i \in DOMAIN s : s[i] = ",") /\ (\E i \in DOMAIN s : s[i] = ".")
  THEN ReplaceFirstComma(RemoveChars(s, {"."}))
  ELSE ReplaceFirstComma(s)

\* Lines 60-61
SignedOrZero(val, neg) ==
  IF isNaN(val) THEN Zero ELSE IF neg THEN Negate(val) ELSE val

\* Lines 54-61 on the text and the sign found so far.
ParseMarked(p) == SignedOrZero(parseFloat(DecimalPoint(KeepNumeric(p.s))), p.neg)

\* Lines 51-61 on the trimmed text.
ParseText(s) ==
  IF s = <<>> \/ (Len(s) = 1 /\ s[1] \in Dashes) THEN Zero
  ELSE ParseMarked(StripTrailingMinus(StripParens(
         RemoveChars(RemoveCurrency(s), Whitespace))))

\* parsePtNumber (lines 48-62).
parsePtNumber(raw) ==
  IF raw = Undefined \/ raw = Null THEN Zero ELSE ParseText(trim(raw))

\* ------------------------------------------------------------ header locator

\* The fallback header row (line 80) and title column (line 81).
DefaultHeaderIdx == 1
DefaultTitleCol == 1
\* The rows scanned for a header (line 83) and the month cells a header
\* needs (line 86).
ScanWindow == 5
MonthHitThreshold == 3

\* row.map(monthKey).filter(Boolean).length (line 85): every key, "total"
\* too, is a truthy string.
monthHits(row) == Len(SelectSeq(row, LAMBDA c : monthKey(c) # Null))

\* A scan that takes a row with one month cell fewer for the header.
RECURSIVE ScanHeaderLowerThreshold(_, _)
ScanHeaderLowerThreshold(data, i) ==
  IF i >= ScanWindow \/ i >= Len(data)
  THEN [headerIdx |-> DefaultHeaderIdx, titleCol |-> DefaultTitleCol]
  ELSE IF monthHits(At(data, i)) >= MonthHitThreshold - 1
       THEN [headerIdx |-> i,
             titleCol  |-> IF At(At(data, i), 1) # Undefined THEN 1 ELSE 0]
       ELSE ScanHeaderLowerThreshold(data, i + 1)

\* A scan without the break: the last row with enough month cells wins.
ScanHeaderNoBreak(data, i) ==
  LET hits == {j \in i..(ScanWindow - 1) :
                 j < Len(data) /\ monthHits(At(data, j)) >= MonthHitThreshold}
  IN  IF hits = {}
      THEN [headerIdx |-> DefaultHeaderIdx, titleCol |-> DefaultTitleCol]
      ELSE [headerIdx |-> SetMax(hits),
            titleCol  |-> IF At(At(data, SetMax(hits)), 1) # Undefined THEN 1 ELSE 0]

\* The scan of lines 83-93 from row i on: the first row with enough month
\* cells is the header, and the loop breaks there.
RECURSIVE ScanHeader(_, _)
ScanHeader(data, i) ==
  IF i >= ScanWindow \/ i >= Len(data)
  THEN [headerIdx |-> DefaultHeaderIdx, titleCol |-> DefaultTitleCol]
  ELSE LET row == At(data, i)
       IN  IF monthHits(row) >= MonthHitThreshold
           THEN [headerIdx |-> i,
                 titleCol  |-> IF At(row, 1) # Undefined THEN 1 ELSE 0]
           ELSE ScanHeader(data, i + 1)

\* ------------------------------------------------------------ month columns

\* The start column when the header holds no month (line 101).
DefaultStartC == 2
\* The largest absolute value of an auxiliary (index / %) cell (line 111).
AuxMaxAbs == 5

\* header.findIndex((c) => monthKey(c)), -1 when there is none (line 100).
FindFirstMonth(header) ==
  LET hit == {i \in 0..(Len(header) - 1) : monthKey(At(header, i)) # Null}
  IN  IF hit = {} THEN -1 ELSE SetMin(hit)

\* !isNaN(nextNum) && Math.abs(nextNum) <= 5 (line 111)
IsAuxValue(nextNum) == ~isNaN(nextNum) /\ AbsAtMost(nextNum, AuxMaxAbs)

\* nextIsAux (lines 108-111): the next header cell is empty and the cell
\* under it holds a small number.  below is the row under the header.
NextIsAux(header, below, idx) ==
  /\ Coalesce(At(header, idx + 1), <<>>) = <<>>
  /\ IsAuxValue(parsePtNumber(trim(Coalesce(At(below, idx + 1), <<>>))))

\* The loop of lines 103-115 from column idx on, and its body for the key
\* of column idx.
RECURSIVE MapMonthCols(_, _, _)
RECURSIVE MonthColStep(_, _, _, _)
\* A loop body that keeps the total column.
MonthColStepKeepTotal(header, below, idx, key) ==
  IF key = Null
  THEN MapMonthCols(header, below, idx + 1)
  ELSE <<[mes |-> key, col |-> idx, raw |-> At(header, idx)]>>
       \o MapMonthCols(header, below,
                       IF NextIsAux(header, below, idx) THEN idx + 2 ELSE idx + 1)

MonthColStep(header, below, idx, key) ==
  IF key = Null \/ key = TotalKey
  THEN MapMonthCols(header, below, idx + 1)
  ELSE <<[mes |-> key, col |-> idx, raw |-> At(header, idx)]>>
       \o MapMonthCols(header, below,
                       IF NextIsAux(header, below, idx) THEN idx + 2 ELSE idx + 1)

MapMonthCols(header, below, idx) ==
  IF idx >= Len(header) THEN <<>>
  ELSE MonthColStep(header, below, idx, monthKey(At(header, idx)))

\* if (startC < 0) startC = 2 (line 101)
StartColumn(found) == IF found < 0 THEN DefaultStartC ELSE found

\* Lines 95-115: the month columns of the grid for a located header; the
\* row under the header is data[headerIdx + 1] ?? [].
MonthColsOf(data, headerIdx) ==
  MapMonthCols(Coalesce(At(data, headerIdx), <<>>),
               Coalesce(At(data, headerIdx + 1), <<>>),
               StartColumn(FindFirstMonth(Coalesce(At(data, headerIdx), <<>>))))

\* monthCols.map((m) => m.mes) (line 117)
MonthsFound(monthCols) == [k \in DOMAIN monthCols |-> monthCols[k].mes]

\* ------------------------------------------------------------ account rows

\* The longest lookup key (line 137).
KeyMaxLen == 100

\* The characters /[()=+\-]/ removes from a key.
KeyPunctuation == {"(", ")", "=", "+", "-"}

\* normalize(t).replace(/\s+/g, "_").replace(/[()=+\-]/g, ""), the key of a
\* title (line 137, before the slice) and of an alias variant (line 192).
NormKey(t) ==
  RemoveChars(ReplaceWhitespaceRuns(normalize(t), <<"_">>), KeyPunctuation)

\* A key built by dropping the punctuation and trimming before the spaces
\* become underscores.
keyNormTrimmed(titleRaw) ==
  SliceTo(ReplaceWhitespaceRuns(
            trim(RemoveChars(normalize(titleRaw), KeyPunctuation)), <<"_">>),
          KeyMaxLen)

\* keyNorm (line 137)
keyNorm(titleRaw) == SliceTo(NormKey(titleRaw), KeyMaxLen)

\* String(row[col] ?? "").trim()
CellText(row, col) == trim(Coalesce(At(row, col), <<>>))

\* isNaN(val) ? 0 : val (line 134)
NumOrZero(val) == IF isNaN(val) THEN Zero ELSE val

\* values (lines 131-135): one entry per month key; of two columns with the
\* same key the later one overwrites the earlier.
RowValues(row, monthCols) ==
  [m \in {monthCols[k].mes : k \in DOMAIN monthCols} |->
    NumOrZero(parsePtNumber(
      At(row, monthCols[SetMax({k \in DOMAIN monthCols : monthCols[k].mes = m})].col)))]

\* A loop that keeps the titled rows whose month cells are all blank.
RECURSIVE ExtractRowsKeepBlank(_, _, _, _)
ExtractRowsKeepBlank(data, r, titleCol, monthCols) ==
  IF r >= Len(data) THEN <<>>
  ELSE IF CellText(At(data, r), titleCol) = <<>>
  THEN ExtractRowsKeepBlank(data, r + 1, titleCol, monthCols)
  ELSE <<[name   |-> CellText(At(data, r), titleCol),
          key    |-> keyNorm(CellText(At(data, r), titleCol)),
          values |-> RowValues(At(data, r), monthCols)]>>
       \o ExtractRowsKeepBlank(data, r + 1, titleCol, monthCols)

\* The loop of lines 122-144 from row r on.
RECURSIVE ExtractRows(_, _, _, _)
ExtractRows(data, r, titleCol, monthCols) ==
  IF r >= Len(data) THEN <<>>
  ELSE LET row       == At(data, r)
           titleRaw  == CellText(row, titleCol)
           hasAnyVal == \E k \in DOMAIN monthCols :
                           CellText(row, monthCols[k].col) # <<>>
           rest      == ExtractRows(data, r + 1, titleCol, monthCols)
       IN  IF titleRaw = <<>> THEN rest
           ELSE IF ~hasAnyVal THEN rest
           ELSE <<[name   |-> titleRaw,
                   key    |-> keyNorm(titleRaw),
                   values |-> RowValues(row, monthCols)]>> \o rest

\* ------------------------------------------------------------ index

\* m.set(key, obj) on a Map kept as its entries in insertion order: a key
\* already present keeps its place and takes the new object.
MapSet(m, key, obj) ==
  IF \E j \in DOMAIN m : m[j].key = key
  THEN [j \in DOMAIN m |-> IF m[j].key = key THEN [key |-> key, obj |-> obj]
                           ELSE m[j]]
  ELSE Append(m, [key |-> key, obj |-> obj])

\* rows.forEach((r) => m.set(r.key, r)) from row i on (line 159).
RECURSIVE IndexFrom(_, _, _)
IndexFrom(m, rs, i) ==
  IF i > Len(rs) THEN m ELSE IndexFrom(MapSet(m, rs[i].key, rs[i]), rs, i + 1)

\* map (lines 157-161): the index of the published rows.
BuildIndex(rs) == IndexFrom(<<>>, rs, 1)

\* ------------------------------------------------------------ aliases

\* aliases (lines 164-187), in source order.
aliases == <<
  [key |-> <<"f","a","t","u","r","a","m","e","n","t","o","_","b","r","u","t","o">>, opts |-> <<<<"f","a","t","u","r","a","m","e","n","t","o"," ","b","r","u","t","o">>>>],
  [key |-> <<"r","e","c","e","i","t","a","s","_","s","e","r","v","i","c","o","s">>, opts |-> <<<<"r","e","c","e","i","t","a"," ","d","a"," ","p","r","e","s","t","a","c","a","o"," ","d","e"," ","s","e","r","v","i","c","o","s">>, <<"r","e","c","e","i","t","a"," ","p","r","e","s","t","a","c","a","o"," ","d","e"," ","s","e","r","v","i","c","o","s">>, <<"r","e","c","e","i","t","a"," ","d","e"," ","s","e","r","v","i","c","o","s">>>>],
  [key |-> <<"r","e","c","e","i","t","a","s","_","r","e","v","e","n","d","a">>, opts |-> <<<<"r","e","c","e","i","t","a"," ","d","a"," ","r","e","v","e","n","d","a"," ","d","e"," ","m","e","r","c","a","d","o","r","i","a","s">>>>],
  [key |-> <<"r","e","c","e","i","t","a","s","_","f","a","b","r","i","c","a","c","a","o">>, opts |-> <<<<"r","e","c","e","i","t","a"," ","d","e"," ","f","a","b","r","i","c","a","c","a","o"," ","p","r","o","p","r","i","a">>, <<"r","e","c","e","i","t","a"," ","d","e"," ","f","a","b","r","i","c","a","c","a","o"," ","p","r","o","p","r","i","a">>>>],
  [key |-> <<"d","e","d","u","c","o","e","s">>, opts |-> <<<<"d","e","d","u","c","o","e","s">>, <<"d","e","d","u","c","o","e","s"," ","e","s","t","o","r","n","o","s">>, <<"d","e","v","o","l","u","c","o","e","s","/","e","s","t","o","r","n","o","s">>, <<"d","e","d","u","c","o","e","s"," ","(","-",")">>>>],
  [key |-> <<"r","e","c","e","i","t","a","_","l","i","q","u","i","d","a">>, opts |-> <<<<"r","e","c","e","i","t","a"," ","l","i","q","u","i","d","a">>, <<"r","e","c","e","i","t","a"," ","l","i","q","u","i","d","a"," ","=">>, <<"r","e","c","e","i","t","a"," ","l","i","q","u","i","d","a"," ","(","=",")">>>>],
  [key |-> <<"c","u","s","t","o","s","_","t","o","t","a","i","s">>, opts |-> <<<<"c","u","s","t","o","s"," ","t","o","t","a","i","s">>, <<"c","u","s","t","o","s"," ","t","o","t","a","i","s"," ","=">>, <<"c","u","s","t","o","s"," ","t","o","t","a","i","s"," ","(","=",")">>>>],
  [key |-> <<"c","u","s","t","o","s","_","o","p","e","r","a","c","i","o","n","a","i","s">>, opts |-> <<<<"c","u","s","t","o","s"," ","o","p","e","r","a","c","i","o","n","a","i","s">>, <<"c","u","s","t","o","s"," ","o","p","e","r","a","c","i","o","n","a","i","s"," ","(","-",")">>>>],
  [key |-> <<"d","e","s","p","e","s","a","s","_","a","d","m">>, opts |-> <<<<"d","e","s","p","e","s","a","s"," ","a","d","m">>, <<"d","e","s","p","e","s","a","s"," ","a","d","m","i","n","i","s","t","r","a","t","i","v","a","s">>>>],
  [key |-> <<"d","e","s","p","e","s","a","s","_","c","o","m","e","r","c","i","a","l">>, opts |-> <<<<"d","e","s","p","e","s","a","s"," ","c","o","m","e","r","c","i","a","l">>, <<"d","e","s","p","e","s","a","s"," ","c","o","m","e","r","c","i","a","i","s">>>>],
  [key |-> <<"d","e","s","p","e","s","a","s","_","l","o","g","i","s","t","i","c","a">>, opts |-> <<<<"d","e","s","p","e","s","a","s"," ","c","o","m"," ","l","o","g","i","s","t","i","c","a">>, <<"d","e","s","p","e","s","a","s"," ","c","o","m"," ","l","o","g","i","s","t","i","c","a">>, <<"l","o","g","i","s","t","i","c","a">>>>],
  [key |-> <<"e","b","i","t","d","a">>, opts |-> <<<<"e","b","i","t","d","a">>>>],
  [key |-> <<"l","u","c","r","o","_","o","p","e","r","a","c","i","o","n","a","l">>, opts |-> <<<<"l","u","c","r","o"," ","o","p","e","r","a","c","i","o","n","a","l"," ","(","e","b","i","t",")">>, <<"l","u","c","r","o"," ","o","p","e","r","a","c","i","o","n","a","l"," ","e","b","i","t">>, <<"e","b","i","t">>>>],
  [key |-> <<"r","e","s","u","l","t","a","d","o","_","f","i","n","a","n","c","e","i","r","o">>, opts |-> <<<<"r","e","s","u","l","t","a","d","o"," ","f","i","n","a","n","c","e","i","r","o">>>>],
  [key |-> <<"i","m","p","o","s","t","o","s","_","s","o","b","r","e","_","l","u","c","r","o">>, opts |-> <<<<"i","m","p","o","s","t","o","s"," ","s","o","b","r","e"," ","o"," ","l","u","c","r","o">>>>],
  [key |-> <<"l","u","c","r","o","_","l","i","q","u","i","d","o">>, opts |-> <<<<"l","u","c","r","o"," ","l","i","q","u","i","d","o">>, <<"l","u","c","r","o"," ","l","i","q","u","i","d","o"," ","=">>, <<"l","u","c","r","o"," ","l","i","q","u","i","d","o"," ","(","=",")">>, <<"l","u","c","r","o"," ","l","i","q","u","i","d","o"," ","(","+","/","-",")">>>>],
  [key |-> <<"l","u","c","r","o","_","b","r","u","t","o">>, opts |-> <<<<"l","u","c","r","o"," ","b","r","u","t","o">>, <<"l","u","c","r","o"," ","b","r","u","t","o"," ","(","=",")">>>>],
  [key |-> <<"g","e","r","a","c","a","o","_","c","a","i","x","a">>, opts |-> <<<<"g","e","r","a","c","a","o"," ","d","e"," ","c","a","i","x","a">>, <<"g","e","r","a","c","a","o"," ","d","e"," ","c","a","i","x","a">>>>],
  [key |-> <<"i","n","a","d","i","m","p","l","e","n","c","i","a","_","m","e","s">>, opts |-> <<<<"i","n","a","d","i","m","p","l","e","n","c","i","a"," ","d","o"," ","m","e","s">>, <<"i","n","a","d","i","m","p","l","e","n","c","i","a"," ","m","e","s">>, <<"i","n","a","d","i","m","p","l","e","n","c","i","a"," ","d","o"," ","m","U+00EA","s">>>>],
  [key |-> <<"i","n","a","d","i","m","p","l","e","n","c","i","a","_","a","c","u","m","u","l","a","d","a">>, opts |-> <<<<"i","n","a","d","i","m","p","l","e","n","c","i","a"," ","a","c","u","m","u","l","a","d","a">>>>],
  [key |-> <<"p","r","a","z","o","_","m","e","d","i","o","_","r","e","c","e","b","e","r">>, opts |-> <<<<"p","m","r">>, <<"p","r","a","z","o"," ","m","e","d","i","o"," ","r","e","c","e","b","e","r">>, <<"p","r","a","z","o"," ","m","e","d","i","o"," ","d","e"," ","r","e","c","e","b","i","m","e","n","t","o">>>>],
  [key |-> <<"p","r","a","z","o","_","m","e","d","i","o","_","p","a","g","a","r">>, opts |-> <<<<"p","m","p">>, <<"p","r","a","z","o"," ","m","e","d","i","o"," ","p","a","g","a","r">>, <<"p","r","a","z","o"," ","m","e","d","i","o"," ","d","e"," ","p","a","g","a","m","e","n","t","o">>>>] >>

\* The properties every object literal inherits from Object.prototype:
\* aliases and a row's values are plain objects, so obj[name] finds them.
\* All are functions but __proto__, an object; none is iterable.
ObjectPrototypeProps == {
  <<"c","o","n","s","t","r","u","c","t","o","r">>, <<"_","_","p","r","o","t","o","_","_">>, <<"h","a","s","O","w","n","P","r","o","p","e","r","t","y">>, <<"i","s","P","r","o","t","o","t","y","p","e","O","f">>,
  <<"p","r","o","p","e","r","t","y","I","s","E","n","u","m","e","r","a","b","l","e">>, <<"t","o","L","o","c","a","l","e","S","t","r","i","n","g">>, <<"t","o","S","t","r","i","n","g">>, <<"v","a","l","u","e","O","f">>,
  <<"_","_","d","e","f","i","n","e","G","e","t","t","e","r","_","_">>, <<"_","_","d","e","f","i","n","e","S","e","t","t","e","r","_","_">>, <<"_","_","l","o","o","k","u","p","G","e","t","t","e","r","_","_">>,
  <<"_","_","l","o","o","k","u","p","S","e","t","t","e","r","_","_">> }

HasOwnAlias(aliasKey) == \E j \in DOMAIN aliases : aliases[j].key = aliasKey

\* aliases[aliasKey] || [] (line 190): the variants of an own key, nothing
\* for an unknown key, and for an inherited name a truthy value that
\* for...of cannot iterate.
AliasOpts(aliasKey) ==
  IF HasOwnAlias(aliasKey)
  THEN [iterable |-> TRUE,
        opts |-> aliases[CHOOSE j \in DOMAIN aliases : aliases[j].key = aliasKey].opts]
  ELSE IF aliasKey \in ObjectPrototypeProps
       THEN [iterable |-> FALSE, opts |-> <<>>]
       ELSE [iterable |-> TRUE, opts |-> <<>>]

\* The loop of lines 191-197 from variant i on (i counts from 1), and its
\* body for the normalized variant k: the variant's exact entry, else the
\* first entry in index order whose key contains the variant, else the next
\* variant; null after the last.  A returned row is the one element of row;
\* branch and opt (0-based) say which return statement gave it.
RECURSIVE FindFrom(_, _, _)
RECURSIVE FindStep(_, _, _, _)
\* A loop body that tries the substring match before the exact one.
FindStepSubstringFirst(m, opts, i, k) ==
  LET exact == {j \in DOMAIN m : m[j].key = k}
      sub   == {j \in DOMAIN m : includes(m[j].key, k)}
  IN  IF sub # {}
      THEN [outcome |-> "row", row |-> <<m[SetMin(sub)].obj>>,
            branch |-> "substring", opt |-> i - 1]
      ELSE IF exact # {}
      THEN [outcome |-> "row", row |-> <<m[SetMin(exact)].obj>>,
            branch |-> "exact", opt |-> i - 1]
      ELSE FindFrom(m, opts, i + 1)

FindStep(m, opts, i, k) ==
  LET exact == {j \in DOMAIN m : m[j].key = k}
      sub   == {j \in DOMAIN m : includes(m[j].key, k)}
  IN  IF exact # {}
      THEN [outcome |-> "row", row |-> <<m[SetMin(exact)].obj>>,
            branch |-> "exact", opt |-> i - 1]
      ELSE IF sub # {}
      THEN [outcome |-> "row", row |-> <<m[SetMin(sub)].obj>>,
            branch |-> "substring", opt |-> i - 1]
      ELSE FindFrom(m, opts, i + 1)

FindFrom(m, opts, i) ==
  IF i > Len(opts)
  THEN [outcome |-> "null", row |-> <<>>, branch |-> "none", opt |-> -1]
  ELSE FindStep(m, opts, i, NormKey(opts[i]))

\* The loop of findRow for the looked-up variants.
FindIn(m, a) ==
  IF ~a.iterable
  THEN [outcome |-> "TypeError", row |-> <<>>, branch |-> "none", opt |-> -1]
  ELSE FindFrom(m, a.opts, 1)

\* findRow (lines 189-199) over the index m.
findRow(m, aliasKey) == FindIn(m, AliasOpts(aliasKey))

\* row.values?.[m] ?? 0, then Number(...) (line 205): an own month's value;
\* for an inherited name Number of a function or object, NaN; else 0.
ValueOfMonth(values, m) ==
  IF m \in DOMAIN values THEN values[m]
  ELSE IF m \in ObjectPrototypeProps THEN NaN
  ELSE Zero

\* Lines 203-205 for the row findRow gave; mes may be undefined.  The
\* returned number is the one element of value.
ValueOfFound(found, mes) ==
  IF found.outcome = "TypeError"
  THEN [outcome |-> "TypeError", value |-> <<>>]
  ELSE IF found.outcome = "null"
  THEN [outcome |-> "number", value |-> <<Zero>>]
  ELSE [outcome |-> "number",
        value |-> <<ValueOfMonth(found.row[1].values,
                                 toLowerCase(Coalesce(mes, <<>>)))>>]

\* valueAt (lines 201-206) over the index m.
valueAt(m, aliasKey, mes) == ValueOfFound(findRow(m, aliasKey), mes)

\* ------------------------------------------------------------ inputs

\* The most rows above the header row, and the most account rows below it,
\* in the sheets the model fetches.
MaxPad == 5
MaxDataRows == 2

SeqsUpTo(S, n) == UNION {[1..k -> S] : k \in 0..n}

\* Header rows: code, title, then months with an empty-headed auxiliary
\* column and a total; the two-month header of the end-to-end scenario; a
\* header without months; a header that repeats a month.
HdrFull  == <<<<"#">>, <<"C","o","n","t","a">>, <<"J","a","n">>, <<>>, <<"F","e","v">>, <<"T","o","t","a","l">>>>
HdrTwo   == <<<<>>, <<"J","a","n","/","2","5">>, <<"F","e","v","/","2","5">>>>
HdrNone  == <<<<"C","o","d","i","g","o">>, <<"C","o","n","t","a">>, <<"V","a","l","o","r">>>>
HdrDup   == <<<<>>, <<"C","o","n","t","a">>, <<"j","a","n","/","2","5">>, <<"J","A","N","E","I","R","O"," ","2","0","2","5">>, <<" ","M","a","r","U+00E7","o","-","2","5"," ">>>>
Headers  == {HdrFull, HdrTwo, HdrNone, HdrDup}

\* Rows above the header: a blank line, and a line of three months, which
\* itself counts as a header.
PadRows == {<<<<>>>>, <<<<"J","a","n">>, <<"F","e","v">>, <<"M","a","r">>>>}

\* Account titles and the cells (month, auxiliary, month, total) beside
\* them: blank cells, plain amounts with a small auxiliary value, and
\* amounts in parentheses, as a dash and with a currency sign beside a large
\* auxiliary value.
Titles == {<<" ">>, <<"R","e","c","e","i","t","a"," ","L","U+00ED","q","u","i","d","a"," ","(","=",")">>, <<"%"," ","R","e","c","e","i","t","a"," ","L","i","q","u","i","d","a">>,
           <<"R","e","c","e","i","t","a"," ","L","i","q","u","i","d","a">>}
BlankRun  == <<<<>>, <<>>, <<" ">>, <<>>>>
PlainRun  == <<<<"1",".","0","0","0",",","0","0">>, <<"0",",","5">>, <<"2",".","0","0","0",",","5","0">>, <<"3",".","0","0","0",",","5","0">>>>
MarkedRun == <<<<"(","1",".","2","3","4",",","5","6",")">>, <<"1","2">>, <<"-">>, <<"R","$"," ","1","0">>>>
CellRuns == {BlankRun, PlainRun, MarkedRun}

\* Account rows: every title beside plain amounts, and a title beside blank
\* cells and beside marked amounts.
DataRows ==
  {<<<<"1">>, t>> \o PlainRun : t \in Titles}
  \cup {<<<<"1">>, <<"R","e","c","e","i","t","a"," ","L","i","q","u","i","d","a">>>> \o BlankRun,
        <<<<"1">>, <<"R","e","c","e","i","t","a"," ","L","U+00ED","q","u","i","d","a"," ","(","=",")">>>> \o MarkedRun}

\* The grid of the end-to-end scenario.
ScenarioGrid == <<HdrTwo, <<<<"R","e","c","e","i","t","a">>, <<"1",".","0","0","0",",","0","0">>, <<"2",".","0","0","0",",","5","0">>>>>>

\* The sheets: the scenario; every header under every run of rows above it,
\* with an account row or none below; the full header over every run of
\* account rows.
BelowRows == {<<>>,
              <<<<<<"1">>, <<"R","e","c","e","i","t","a">>, <<"1",".","0","0","0",",","0","0">>, <<"0",",","5">>, <<"2",".","0","0","0",",","5","0">>, <<"3",".","0","0","0",",","5","0">>>>>>}
Grids ==
  {ScenarioGrid}
  \cup {p \o <<h>> \o b : p \in SeqsUpTo(PadRows, MaxPad), h \in Headers, b \in BelowRows}
  \cup {<<HdrFull>> \o d : d \in SeqsUpTo(DataRows, MaxDataRows)}

\* The semantic keys and months a consumer asks for: two keys of the alias
\* table, a key it does not hold, and a name every object inherits.
AliasKeyInputs == {<<"r","e","c","e","i","t","a","_","l","i","q","u","i","d","a">>, <<"e","b","i","t","d","a">>, <<"r","e","c","e","i","t","a","_","b","r","u","t","a","_","i","s","_","u","n","m","a","p","p","e","d">>, <<"c","o","n","s","t","r","u","c","t","o","r">>}
MonthInputs == {<<"F","E","V">>, <<"d","e","z">>, <<"c","o","n","s","t","r","u","c","t","o","r">>}

\* ------------------------------------------------------------ the hook

VARIABLES
  phase,     \* where the mount effect stands: "created" (not yet run),
             \* "fetching" (awaiting, line 72), "resuming" (the awaited
             \* promise has settled), "committing" (setters of the block
             \* are still to be called), "settled" (the async function has
             \* ended)
  batching,  \* whether React commits the setter calls of one synchronous block
             \* together (automatic batching) or each at once; the source
             \* does not fix the React version and root
  pending,   \* the setter calls of the block still to be made
  started,   \* how many times the pipeline of lines 70-153 has been started
  resp,      \* how the awaited promise settled, as a sequence of at most one record
  rows,      \* useState([])    (line 65)
  months,    \* useState([])    (line 66)
  loading,   \* useState(true)  (line 67)
  outcome,   \* "pending", "published", or how the try block failed
  run,       \* the pipeline's locals once computed, as a sequence of at most one record
  call       \* the consumer's call in progress with its result, at most one

vars == <<phase, batching, pending, started, resp, rows, months, loading, outcome, run, call>>

\* How the try block can fail: fetch rejects, r.text() rejects, Papa.parse
\* throws.  The steps after the parse are total on a grid of strings.
FailureOutcomes == {"fetchRejected", "textRejected", "parseThrew"}

\* map (lines 157-161), derived from rows.
map == BuildIndex(rows)

Init ==
  /\ phase = "created"
  /\ batching \in BOOLEAN
  /\ pending = <<>>
  /\ started = 0
  /\ resp = <<>>
  /\ rows = <<>>
  /\ months = <<>>
  /\ loading = TRUE
  /\ outcome = "pending"
  /\ run = <<>>
  /\ call = <<>>

\* JavaScript runs one thing at a time: nothing starts while a consumer's
\* call is in progress.
Idle == call = <<>>

\* The effect of line 69 runs after the first render, once: its dependency
\* list is empty (line 154).  It starts the fetch and suspends at the await.
Mount ==
  /\ Idle
  /\ phase = "created"
  /\ phase' = "fetching"
  /\ started' = started + 1
  /\ UNCHANGED <<batching, pending, resp, rows, months, loading, outcome, run, call>>

\* The awaited promise of line 72 fulfils with a text that Papa.parse reads
\* as the grid data.
FetchFulfilled(data) ==
  /\ Idle
  /\ phase = "fetching"
  /\ phase' = "resuming"
  /\ resp' = <<[kind |-> "grid", data |-> data]>>
  /\ UNCHANGED <<batching, pending, started, rows, months, loading, outcome, run, call>>

\* The awaited promise rejects, or fulfils with a text on which Papa.parse
\* throws.
FetchFailed(how) ==
  /\ Idle
  /\ phase = "fetching"
  /\ phase' = "resuming"
  /\ resp' = <<[kind |-> how, data |-> <<>>]>>
  /\ UNCHANGED <<batching, pending, started, rows, months, loading, outcome, run, call>>

\* Lines 80-144: the locals of one extraction.
ExtractCols(data, loc, monthCols) ==
  [data        |-> data,
   headerIdx   |-> loc.headerIdx,
   titleCol    |-> loc.titleCol,
   monthCols   |-> monthCols,
   monthsFound |-> MonthsFound(monthCols),
   resultRows  |-> ExtractRows(data, loc.headerIdx + 1, loc.titleCol, monthCols)]

ExtractAt(data, loc) == ExtractCols(data, loc, MonthColsOf(data, loc.headerIdx))

Extract(data) == ExtractAt(data, ScanHeader(data, 0))

\* The pipeline's locals for each grid the fetch can deliver.
Extracted == [data \in Grids |-> Extract(data)]

\* A setter call: the state variable it sets and the value it is given.
SetterCall(name, value) == [set |-> name, to |-> value]

\* A catch branch that leaves loading set.
CatchLeavesLoading ==
  <<SetterCall("rows", <<>>), SetterCall("months", <<>>), SetterCall("loading", TRUE)>>

\* setRows(resultRows); setMonths(monthsFound); setLoading(false) (lines 146-148)
PublishResult(resultRows, monthsFound) ==
  <<SetterCall("rows", resultRows), SetterCall("months", monthsFound),
    SetterCall("loading", FALSE)>>

\* setRows([]); setMonths([]); setLoading(false) (line 151)
CatchResult ==
  <<SetterCall("rows", <<>>), SetterCall("months", <<>>), SetterCall("loading", FALSE)>>

\* The state a consumer sees, and what one setter call and a block of setter
\* calls make of it.
Snapshot == [rows |-> rows, months |-> months, loading |-> loading]
AfterSetter(st, c) == [st EXCEPT ![c.set] = c.to]
RECURSIVE AfterSetters(_, _)
AfterSetters(st, cs) ==
  IF cs = <<>> THEN st ELSE AfterSetters(AfterSetter(st, Head(cs)), Tail(cs))

\* React renders the state st.
Render(st) ==
  /\ rows' = st.rows
  /\ months' = st.months
  /\ loading' = st.loading

\* How the pipeline ended, known once the promise has settled.
EndOutcome == IF resp[1].kind = "grid" THEN "published" ELSE resp[1].kind

\* The setter calls cs are all made and their one render done: the async
\* function has ended.
Settle(cs) ==
  /\ Render(AfterSetters(Snapshot, cs))
  /\ pending' = <<>>
  /\ phase' = "settled"
  /\ outcome' = EndOutcome

\* Setters that never clear loading.
CommitWithoutLoading(cs) ==
  IF batching
  THEN Settle(SelectSeq(cs, LAMBDA c : c.set # "loading"))
  ELSE /\ Render(AfterSetter(Snapshot, Head(cs)))
       /\ pending' = SelectSeq(Tail(cs), LAMBDA c : c.set # "loading")
       /\ phase' = "committing"
       /\ UNCHANGED outcome

\* The block of setter calls cs (lines 146-148, line 151).  With batching
\* React renders once, after the last call; without, each call renders at
\* once, so the block is left after its first call with the others to come.
Commit(cs) ==
  IF batching
  THEN Settle(cs)
  ELSE /\ Render(AfterSetter(Snapshot, Head(cs)))
       /\ pending' = Tail(cs)
       /\ phase' = "committing"
       /\ UNCHANGED outcome

\* Lines 146-148 for the locals x.
CommitRun(x) ==
  /\ run' = <<x>>
  /\ Commit(PublishResult(x.resultRows, x.monthsFound))

\* The async function resumes and the try block runs on from the await
\* (lines 73-148) into its setter calls.
RunTry ==
  /\ phase = "resuming"
  /\ resp[1].kind = "grid"
  /\ CommitRun(Extracted[resp[1].data])
  /\ UNCHANGED <<batching, started, resp, call>>

\* The async function resumes, the try block throws and the catch branch
\* runs (lines 149-152) into its setter calls.
RunCatch ==
  /\ phase = "resuming"
  /\ resp[1].kind \in FailureOutcomes
  /\ Commit(CatchResult)
  /\ UNCHANGED <<batching, started, resp, run, call>>

\* Without batching: the render of the previous setter call is over and the
\* next call of the block is made; after the last the async function has
\* ended.
NextSetter ==
  /\ Idle
  /\ phase = "committing"
  /\ IF Len(pending) = 1
     THEN Settle(pending)
     ELSE /\ Render(AfterSetter(Snapshot, Head(pending)))
          /\ pending' = Tail(pending)
          /\ UNCHANGED <<phase, outcome>>
  /\ UNCHANGED <<batching, started, resp, run, call>>

\* A consumer calls findRow(aliasKey); the continuation of the await runs
\* before any consumer does.
FindRowCall(aliasKey) ==
  /\ Idle
  /\ phase # "resuming"
  /\ call' = <<[op |-> "findRow", aliasKey |-> aliasKey, mes |-> Undefined,
                found |-> findRow(map, aliasKey), result |-> <<>>]>>
  /\ UNCHANGED <<phase, batching, pending, started, resp, rows, months, loading, outcome, run>>

\* A consumer calls valueAt(aliasKey, mes); found is its local row (line 202).
ValueAtCall(aliasKey, mes) ==
  /\ Idle
  /\ phase # "resuming"
  /\ call' = <<[op |-> "valueAt", aliasKey |-> aliasKey, mes |-> mes,
                found |-> findRow(map, aliasKey),
                result |-> <<valueAt(map, aliasKey, mes)>>]>>
  /\ UNCHANGED <<phase, batching, pending, started, resp, rows, months, loading, outcome, run>>

\* The call returns to the consumer.
Return ==
  /\ call # <<>>
  /\ call' = <<>>
  /\ UNCHANGED <<phase, batching, pending, started, resp, rows, months, loading, outcome, run>>

FetchSettles ==
  \/ \E data \in Grids : FetchFulfilled(data)
  \/ \E how \in FailureOutcomes : FetchFailed(how)

Next ==
  \/ Mount
  \/ \E data \in Grids : FetchFulfilled(data)
  \/ \E how \in FailureOutcomes : FetchFailed(how)
  \/ RunTry
  \/ RunCatch
  \/ NextSetter
  \/ \E aliasKey \in AliasKeyInputs : FindRowCall(aliasKey)
  \/ \E aliasKey \in AliasKeyInputs, mes \in MonthInputs : ValueAtCall(aliasKey, mes)
  \/ Return

Spec == Init /\ [][Next]_vars

\* Every call returns and the event loop runs every task that is ready: the
\* effect after the first render, the continuation of the await once the
\* promise has settled; and a block of setter calls runs on once a render
\* is over.  That the fetch settles is what the claim about loading assumes.
LiveSpec ==
  /\ Spec
  /\ WF_vars(Return)
  /\ SF_vars(Mount)
  /\ SF_vars(FetchSettles)
  /\ WF_vars(RunTry)
  /\ WF_vars(RunCatch)
  /\ SF_vars(NextSetter)

\* ------------------------------------------------------------ properties

Published == outcome = "published"
Failed == outcome \in FailureOutcomes

\* C1: when the fetch rejects or a step of the try block throws, the state
\* the hook publishes once the pipeline has ended is rows = [], months = [],
\* loading = false.
C1_FailureGivesEmptySnapshot ==
  (phase = "settled" /\ Failed) =>
    (rows = <<>> /\ months = <<>> /\ loading = FALSE)

\* The pipeline has ended in the catch branch.
C1_Witness == phase = "settled" /\ outcome = "parseThrew" /\ loading = FALSE

\* C2: every observable triple (rows, months, loading) is the initial one,
\* or the empty one of a failure with loading false, or the rows and the
\* months of the one extraction together with loading false; each row's
\* values are keyed by exactly the published months.
C2_NoPartialSnapshot ==
  \/ /\ outcome = "pending"
     /\ rows = <<>> /\ months = <<>> /\ loading = TRUE
  \/ /\ Failed
     /\ rows = <<>> /\ months = <<>> /\ loading = FALSE
  \/ /\ Published
     /\ loading = FALSE
     /\ rows = run[1].resultRows
     /\ months = run[1].monthsFound
     /\ \A j \in DOMAIN rows :
          DOMAIN rows[j].values = {months[k] : k \in DOMAIN months}

\* C3 as stated: the scenario grid is read with header row 0 and title
\* column 0 and gives the one row Receita with jan = 1000 and fev = 2000.5.
C3_ScenarioAsStated ==
  (Published /\ run[1].data = ScenarioGrid) =>
    /\ run[1].headerIdx = 0
    /\ run[1].titleCol = 0
    /\ Len(rows) = 1
    /\ rows[1].name = <<"R","e","c","e","i","t","a">>
    /\ rows[1].values = (<<"j","a","n">> :> Num(1000, 0) @@ <<"f","e","v">> :> Num(20005, 1))
    /\ months = <<<<"j","a","n">>, <<"f","e","v">>>>

\* C3, amended: row 0 of the scenario grid has two month cells, fewer than
\* the three a header needs, so the locator falls back to header row 1 and
\* title column 1; that row holds no month, and the extraction publishes no
\* rows and no months.
C3_ScenarioFallsBack ==
  (Published /\ run[1].data = ScenarioGrid) =>
    /\ run[1].headerIdx = 1
    /\ run[1].titleCol = 1
    /\ run[1].monthCols = <<>>
    /\ rows = <<>>
    /\ months = <<>>
    /\ loading = FALSE

\* The scenario grid has been fetched and extracted.
C3_Witness == Published /\ run[1].data = ScenarioGrid

TitleRL == <<"R","e","c","e","i","t","a"," ","L","U+00ED","q","u","i","d","a"," ","(","=",")">>
KeyRL == <<"r","e","c","e","i","t","a","_","l","i","q","u","i","d","a">>
AliasRL == <<"r","e","c","e","i","t","a","_","l","i","q","u","i","d","a">>

\* The consumer has called findRow("receita_liquida").
FindRowRLCalled ==
  call # <<>> /\ call[1].op = "findRow" /\ call[1].aliasKey = AliasRL

\* A key without accent, parenthesis or equals sign.
CleanKey(key) ==
  \A i \in DOMAIN key :
    /\ key[i] \notin CombiningMarks
    /\ key[i] \notin DOMAIN Decomposition
    /\ key[i] \notin {"(", ")", "="}

\* C4 as stated: the key of a row titled "Receita Liquida (=)" (with the
\* accent) is clean and equal to "receita_liquida", and findRow returns the
\* row through map.has.
C4_ExactAliasAsStated ==
  \A j \in DOMAIN rows :
    rows[j].name = TitleRL =>
      /\ CleanKey(rows[j].key)
      /\ rows[j].key = KeyRL
      /\ FindRowRLCalled =>
           /\ call[1].found.outcome = "row"
           /\ call[1].found.branch = "exact"
           /\ call[1].found.row[1].name = TitleRL

\* The first row, in row order, whose key contains k.
FirstContaining(k) ==
  rows[SetMin({i \in DOMAIN rows : includes(rows[i].key, k)})]

\* The last row with the key: the object the index holds for it.
LastWithKey(key) == rows[SetMax({i \in DOMAIN rows : rows[i].key = key})]

\* C4, amended: the key of such a row is "receita_liquida_", clean but with
\* the underscore the space before "(" leaves, so it is not the normalized
\* first variant.  findRow("receita_liquida") resolves on the first variant:
\* through map.has exactly when some row's key is "receita_liquida", else
\* through the substring scan, which gives the indexed row of the first key
\* that contains "receita_liquida".
C4_TrailingUnderscoreKey ==
  \A j \in DOMAIN rows :
    rows[j].name = TitleRL =>
      /\ CleanKey(rows[j].key)
      /\ rows[j].key = <<"r","e","c","e","i","t","a","_","l","i","q","u","i","d","a","_">>
      /\ rows[j].key # NormKey(<<"r","e","c","e","i","t","a"," ","l","i","q","u","i","d","a">>)
      /\ rows[j].key = NormKey(<<"r","e","c","e","i","t","a"," ","l","i","q","u","i","d","a"," ","(","=",")">>)
      /\ FindRowRLCalled =>
           /\ call[1].found.outcome = "row"
           /\ call[1].found.opt = 0
           /\ IF \E i \in DOMAIN rows : rows[i].key = KeyRL
              THEN /\ call[1].found.branch = "exact"
                   /\ call[1].found.row[1] = LastWithKey(KeyRL)
              ELSE /\ call[1].found.branch = "substring"
                   /\ call[1].found.row[1] = LastWithKey(FirstContaining(KeyRL).key)

\* findRow("receita_liquida") has returned the row titled
\* "Receita Liquida (=)", the only row whose key holds the variant, through
\* the substring scan.
C4_Witness ==
  /\ FindRowRLCalled
  /\ Len(rows) = 1
  /\ rows[1].name = TitleRL
  /\ call[1].found.branch = "substring"
  /\ call[1].found.row[1] = rows[1]

\* Row r of the locals' grid qualifies: its trimmed title is not empty and
\* at least one month column holds text.
Qualifies(x, r) ==
  /\ CellText(At(x.data, r), x.titleCol) # <<>>
  /\ \E k \in DOMAIN x.monthCols :
       CellText(At(x.data, r), x.monthCols[k].col) # <<>>

\* The qualifying rows strictly below the header.
QualifyingRows(x) ==
  {r \in (x.headerIdx + 1)..(Len(x.data) - 1) : Qualifies(x, r)}

\* The published rows are the rows Q of the grid, in row order: the j-th
\* published row carries the title and the values of the j-th row of Q.
RowsAre(x, Q) ==
  /\ Len(rows) = Cardinality(Q)
  /\ \A r \in Q :
       /\ rows[Cardinality({q \in Q : q <= r})].name
            = CellText(At(x.data, r), x.titleCol)
       /\ rows[Cardinality({q \in Q : q <= r})].values
            = RowValues(At(x.data, r), x.monthCols)

\* C5: the published rows are exactly the rows strictly below the header
\* whose trimmed title is not empty and that hold text in at least one month
\* column, in source row order.
C5_RowsAreQualifyingRows ==
  run # <<>> => RowsAre(run[1], QualifyingRows(run[1]))

\* Below the header, a titled row with every month cell blank lies before a
\* qualifying row; the one row published is the latter.
C5_Witness ==
  /\ Published
  /\ Len(run[1].data) = run[1].headerIdx + 3
  /\ CellText(At(run[1].data, run[1].headerIdx + 1), run[1].titleCol) # <<>>
  /\ ~Qualifies(run[1], run[1].headerIdx + 1)
  /\ Qualifies(run[1], run[1].headerIdx + 2)
  /\ Len(rows) = 1

\* C6: the month columns never hold the key "total", and their column
\* indices increase strictly along the list.
C6_MonthColsOrdered ==
  Published =>
    /\ \A k \in DOMAIN run[1].monthCols : run[1].monthCols[k].mes # <<"t","o","t","a","l">>
    /\ \A k \in 1..(Len(run[1].monthCols) - 1) :
         run[1].monthCols[k].col < run[1].monthCols[k + 1].col

\* A header with a total column was mapped, and an auxiliary column between
\* two months was skipped.
C6_Witness ==
  /\ Published
  /\ run[1].headerIdx < Len(run[1].data)
  /\ \E c \in DOMAIN run[1].data[run[1].headerIdx + 1] :
       monthKey(run[1].data[run[1].headerIdx + 1][c]) = <<"t","o","t","a","l">>
  /\ Len(run[1].monthCols) = 2
  /\ run[1].monthCols[2].col = run[1].monthCols[1].col + 2

\* The rows among the first five with at least three cells the month
\* classifier accepts.
HeaderCandidates(data) ==
  {i \in 0..(Len(data) - 1) :
     /\ i < 5
     /\ Cardinality({c \in DOMAIN data[i + 1] : monthKey(data[i + 1][c]) # Null}) >= 3}

LocatedAt(x, cand) ==
  IF cand = {}
  THEN x.headerIdx = 1 /\ x.titleCol = 1
  ELSE /\ x.headerIdx = SetMin(cand)
       /\ x.titleCol = IF Len(x.data[x.headerIdx + 1]) >= 2 THEN 1 ELSE 0

\* C7: the header row is the lowest-index row among the first five with at
\* least three month cells, with title column 1 if that row has a column 1
\* and 0 otherwise; without such a row the header row is 1 and the title
\* column 1.
C7_HeaderIsFirstCandidate ==
  Published => LocatedAt(run[1], HeaderCandidates(run[1].data))

\* Row 0 has three month cells and is the header although later rows of the
\* window have three too.
C7_Witness ==
  /\ Published
  /\ run[1].headerIdx = 0
  /\ Cardinality(HeaderCandidates(run[1].data)) >= 2

\* The consumer's call in progress is valueAt.
ValueAtCalled == call # <<>> /\ call[1].op = "valueAt"

\* The month valueAt looks up: the argument in lower case.
LowerMonth(c) == toLowerCase(Coalesce(c.mes, <<>>))

\* What C8 says valueAt returns for the call c with the row findRow gave:
\* a number, never a failure; 0 without an alias entry, without a resolved
\* row, or without a value for the month; else the value stored for it.
ValueAsStated(c, res) ==
  /\ res.outcome = "number"
  /\ ~HasOwnAlias(c.aliasKey) => res.value = <<Zero>>
  /\ c.found.outcome # "row" => res.value = <<Zero>>
  /\ c.found.outcome = "row" =>
       IF LowerMonth(c) \in DOMAIN c.found.row[1].values
       THEN res.value = <<c.found.row[1].values[LowerMonth(c)]>>
       ELSE res.value = <<Zero>>

\* C8: valueAt(semanticKey, month) always returns a number and never fails:
\* 0 when the key has no alias entry, when no row resolves, or when the row
\* has no value for the lower-cased month; else the value the row findRow
\* returns stores for that month.
C8_ValueAtIsTotal ==
  ValueAtCalled => ValueAsStated(call[1], call[1].result[1])

\* The normalized variants of an alias key.
Variants(aliasKey) ==
  {NormKey(AliasOpts(aliasKey).opts[i]) : i \in DOMAIN AliasOpts(aliasKey).opts}

\* C9 as stated: when some row's key equals a normalized variant of the
\* alias list, findRow returns a row whose key equals a normalized variant.
C9_ExactFirstAsStated ==
  (call # <<>> /\ \E j \in DOMAIN rows : rows[j].key \in Variants(call[1].aliasKey)) =>
    /\ call[1].found.outcome = "row"
    /\ call[1].found.row[1].key \in Variants(call[1].aliasKey)

\* No row key contains (or equals) the normalized variant k.
NoHit(k) == \A j \in DOMAIN rows : ~includes(rows[j].key, k)

\* The result f of findRow is the result of variant k alone: the row the
\* index holds for k if a row has that key, else the indexed row of the
\* first key that contains k.
ResultOfVariant(f, k) ==
  IF \E j \in DOMAIN rows : rows[j].key = k
  THEN f.branch = "exact" /\ f.row[1] = LastWithKey(k)
  ELSE /\ f.branch = "substring"
       /\ ~NoHit(k)
       /\ f.row[1] = LastWithKey(FirstContaining(k).key)

\* findRow's result f for the variants opts follows the per-variant order.
PerVariant(f, opts) ==
  IF f.outcome = "row"
  THEN /\ f.opt \in 0..(Len(opts) - 1)
       /\ \A i \in 1..f.opt : NoHit(NormKey(opts[i]))
       /\ ResultOfVariant(f, NormKey(opts[f.opt + 1]))
  ELSE /\ f.outcome = "null"
       /\ \A i \in DOMAIN opts : NoHit(NormKey(opts[i]))

\* C9, amended: findRow tries the variants in list order and, within one
\* variant, the exact key before substring containment; it returns the
\* result of the first variant that some row key equals or contains, so a
\* substring match of an earlier variant precedes an exact match of a later
\* one.
C9_PerVariantPrecedence ==
  (call # <<>> /\ HasOwnAlias(call[1].aliasKey)) =>
    PerVariant(call[1].found, AliasOpts(call[1].aliasKey).opts)

\* findRow returned, through the substring scan of the first variant, a row
\* whose key is no variant, while another row's key equals a later variant.
C9_Witness ==
  /\ call # <<>>
  /\ call[1].op = "findRow"
  /\ call[1].found.branch = "substring"
  /\ call[1].found.row[1].key \notin Variants(call[1].aliasKey)
  /\ \E j \in DOMAIN rows : rows[j].key \in Variants(call[1].aliasKey)

\* C10: the pipeline starts exactly once, at mount; loading is true at
\* first, is false exactly once the one fetch has settled and the pipeline
\* has run to its end, never turns true again, and, the fetch settling, is
\* false in the end.
C10_LoadingLifecycle ==
  /\ loading = TRUE
  /\ [](started <= 1)
  /\ [](phase # "created" => started = 1)
  /\ [](loading = FALSE <=> phase = "settled")
  /\ [][loading = FALSE => loading' = FALSE]_vars
  /\ <>(loading = FALSE)

\* The one pipeline has settled and cleared loading.
C10_Witness == phase = "settled" /\ started = 1 /\ loading = FALSE
====
